---- MODULE Spec2Model ----
(***************************************************************************)
(* Model of the HCL marshaller (marshal.go): a record is walked field by   *)
(* field into an AST (marshalToAST / structToEntries / valueToValue /      *)
(* valueToBlock / sliceToBlocks) and the AST is rendered to text           *)
(* (marshalEntries / marshalAttribute / marshalValue / marshalMap /        *)
(* marshalBlock / marshalComments).  Text is modelled by TLA+ strings, an  *)
(* io.Writer by the sequence of chunks handed to its Write method (one     *)
(* chunk per fmt.Fprintf / fmt.Fprintln call).                             *)
(***************************************************************************)
EXTENDS Integers, Sequences, FiniteSets, TLC

VARIABLES v, schema, pc, se, res, pending, calls, w, failedAt, ret

vars == <<v, schema, pc, se, res, pending, calls, w, failedAt, ret>>

(***************************************************************************)
(* Bounds of the input universe.                                           *)
(***************************************************************************)
MaxFields == 2
MaxElems == 2

(***************************************************************************)
(* Strings.                                                                *)
(***************************************************************************)
\* The bytes that occur in map keys, in ascending byte order.
Alphabet == " <>Vabcdefghijklmnopqrstuvwxyz"

Rank(c) == CHOOSE i \in 1..Len(Alphabet) : SubSeq(Alphabet, i, i) = c

\* Go's < on strings: bytewise lexicographic order.
RECURSIVE StrLess(_, _)
StrLess(a, b) ==
    IF b = "" THEN FALSE
    ELSE IF a = "" THEN TRUE
    ELSE LET ca == Rank(SubSeq(a, 1, 1))
             cb == Rank(SubSeq(b, 1, 1))
         IN IF ca # cb THEN ca < cb
            ELSE StrLess(SubSeq(a, 2, Len(a)), SubSeq(b, 2, Len(b)))

\* strings.Join / concatenation of a sequence of strings.
RECURSIVE Join(_, _)
Join(ss, sep) ==
    IF ss = <<>> THEN ""
    ELSE IF Len(ss) = 1 THEN ss[1]
    ELSE ss[1] \o sep \o Join(Tail(ss), sep)

\* fmt's %q for the strings of the model (none needs an escape).
Quote(s) == "\"" \o s \o "\""

(***************************************************************************)
(* Runtime values (reflect.Value): a type name, a kind and the payload of  *)
(* the kind.                                                               *)
(***************************************************************************)
StringV(s) == [type |-> "string", kind |-> "string", s |-> s]
IntV(i) == [type |-> "int", kind |-> "int", i |-> i]
UintV(i) == [type |-> "uint", kind |-> "uint", i |-> i]
FloatV(i) == [type |-> "float64", kind |-> "float64", i |-> i]
BoolV(b) == [type |-> "bool", kind |-> "bool", b |-> b]
DurationV(secs) == [type |-> "time.Duration", kind |-> "int64", i |-> secs]
TimeV(s) == [type |-> "time.Time", kind |-> "struct", s |-> s]
TextV(s, fail) == [type |-> "hcl.text", kind |-> "string", s |-> s, fail |-> fail]
JsonV(s, fail) == [type |-> "hcl.json", kind |-> "string", s |-> s, fail |-> fail]
ChanV == [type |-> "chan int", kind |-> "chan", nil |-> TRUE]
SliceV(t, isnil, elems) == [type |-> t, kind |-> "slice", nil |-> isnil, elems |-> elems]
\* pairs: the key/value pairs in the order v.MapKeys() returns the keys.
MapV(t, isnil, pairs) == [type |-> t, kind |-> "map", nil |-> isnil, pairs |-> pairs]
\* enumErr: flattenFields fails on this struct type.
StructV(t, enumErr, fields) ==
    [type |-> t, kind |-> "struct", enumErr |-> enumErr, fields |-> fields]
\* A slice of structs also carries the zero value of its element type
\* (reflect.New(t.Elem()).Elem()).
StructSliceV(t, isnil, elems, zero) ==
    [type |-> t, kind |-> "slice", nil |-> isnil, elems |-> elems, zero |-> zero]

Tag(name, label, block, optional, comments) ==
    [name |-> name, label |-> label, block |-> block, optional |-> optional,
     comments |-> comments]

Field(val, tag) == [v |-> val, tag |-> tag]

\* reflect.Value.String(): the string itself for a string kind, "<T Value>"
\* for every other kind.
String(x) == IF x.kind = "string" THEN x.s ELSE "<" \o x.type \o " Value>"

\* reflect.Value.IsZero().
RECURSIVE IsZero(_)
IsZero(x) ==
    CASE x.kind = "string" -> x.s = ""
      [] x.kind \in {"int", "uint", "float64", "int64"} -> x.i = 0
      [] x.kind = "bool" -> ~x.b
      [] x.kind \in {"slice", "map", "chan"} -> x.nil
      [] x.kind = "struct" ->
            IF x.type = "time.Time" THEN x.s = ""
            ELSE \A i \in 1..Len(x.fields) : IsZero(x.fields[i].v)

PtrV(x) == [type |-> "*" \o x.type, kind |-> "ptr", elem |-> x]

(***************************************************************************)
(* AST nodes.  A Go pointer field is a sequence of length at most one.     *)
(***************************************************************************)
NoValue ==
    [Str |-> <<>>, Number |-> <<>>, Bool |-> <<>>, List |-> <<>>,
     HaveList |-> FALSE, Map |-> <<>>, HaveMap |-> FALSE]
StrValue(s) == [NoValue EXCEPT !.Str = <<s>>]
NumberValue(n) == [NoValue EXCEPT !.Number = <<n>>]
BoolValue(b) == [NoValue EXCEPT !.Bool = <<b>>]
ListValue(list) == [NoValue EXCEPT !.List = list, !.HaveList = TRUE]
MapValue(entries) == [NoValue EXCEPT !.Map = entries, !.HaveMap = TRUE]
MapEntry(key, value) == [Key |-> key, Value |-> value, Comments |-> <<>>]
Attribute(key, value) == [Key |-> key, Value |-> value]
Block(name, labels, body) == [Name |-> name, Labels |-> labels, Body |-> body]
AttrEntry(attr, comments) ==
    [Attribute |-> <<attr>>, Block |-> <<>>, Comments |-> comments]
BlockEntry(block, comments) ==
    [Attribute |-> <<>>, Block |-> <<block>>, Comments |-> comments]

\* The Go error value nil.
NoErr == "nil"

\* What a call gives back: its values, its error, and whether it panicked
\* instead of returning (a panic unwinds through every caller).
ValResult(val, err, panic) == [val |-> val, err |-> err, panic |-> panic]
EntResult(entries, labels, err, panic) ==
    [entries |-> entries, labels |-> labels, err |-> err, panic |-> panic]
BlockResult(block, err, panic) == [block |-> block, err |-> err, panic |-> panic]
BlocksResult(blocks, err, panic) == [blocks |-> blocks, err |-> err, panic |-> panic]

(***************************************************************************)
(* Value Encoder.                                                          *)
(***************************************************************************)
durationType == "time.Duration"
timeType == "time.Time"
TextMarshalerTypes == {"hcl.text", "time.Time"}
JsonMarshalerTypes == {"hcl.json", "time.Time"}

implements(x, types) == x.type \in types

\* time.Duration.String() for a whole number of seconds.
DurationString(secs) ==
    LET h == secs \div 3600
        m == (secs % 3600) \div 60
        s == secs % 60
    IN IF h > 0 THEN ToString(h) \o "h" \o ToString(m) \o "m" \o ToString(s) \o "s"
       ELSE IF m > 0 THEN ToString(m) \o "m" \o ToString(s) \o "s"
       ELSE ToString(s) \o "s"

\* The user's MarshalText / MarshalJSON hooks of the model's types.
MarshalFails(x) == x.type \in {"hcl.text", "hcl.json"} /\ x.fail
MarshalText(x) == IF x.type = "hcl.text" THEN "text:" \o x.s ELSE x.s
MarshalJSON(x) == Quote(x.s)

\* lessKey with the comparison turned round.
lessKeyReversed(a, b) == StrLess(String(b), String(a))

\* sort.Slice(sorted, less) at line 179: less compares the keys' String().
lessKey(a, b) == StrLess(String(a), String(b))

\* One pass of the insertion sort sort.Slice runs on short slices: x moves
\* left while it is less than its left neighbour.
RECURSIVE insertKey(_, _)
insertKey(sorted, x) ==
    IF sorted = <<>> THEN <<x>>
    ELSE IF lessKey(x, sorted[Len(sorted)])
         THEN Append(insertKey(SubSeq(sorted, 1, Len(sorted) - 1), x),
                     sorted[Len(sorted)])
         ELSE Append(sorted, x)

RECURSIVE sortKeys(_)
sortKeys(keys) ==
    IF keys = <<>> THEN <<>>
    ELSE insertKey(sortKeys(SubSeq(keys, 1, Len(keys) - 1)), keys[Len(keys)])

MapKeys(x) == [i \in 1..Len(x.pairs) |-> x.pairs[i].k]
MapIndex(x, key) ==
    x.pairs[CHOOSE i \in 1..Len(x.pairs) : x.pairs[i].k = key].v

RECURSIVE valueToValue(_)
RECURSIVE sliceLoop(_, _, _)
RECURSIVE mapLoop(_, _, _, _)

\* The loop of lines 163-170 from element i on, list holding the values so far.
sliceLoop(x, i, list) ==
    IF i > Len(x.elems) THEN ValResult(<<ListValue(list)>>, NoErr, FALSE)
    ELSE LET r == valueToValue(x.elems[i])
         IN IF r.panic \/ r.err # NoErr THEN ValResult(<<>>, r.err, r.panic)
            ELSE sliceLoop(x, i + 1, Append(list, r.val[1]))

\* The loop of lines 182-192 from sorted key i on.
mapLoop(x, sorted, i, entries) ==
    IF i > Len(sorted) THEN ValResult(<<MapValue(entries)>>, NoErr, FALSE)
    ELSE LET r == valueToValue(MapIndex(x, sorted[i]))
         IN IF r.panic \/ r.err # NoErr THEN ValResult(<<>>, r.err, r.panic)
            ELSE mapLoop(x, sorted, i + 1,
                         Append(entries,
                                MapEntry(StrValue(String(sorted[i])), r.val[1])))

valueToValue(x) ==
    IF x.type = durationType
    THEN ValResult(<<StrValue(DurationString(x.i))>>, NoErr, FALSE)
    ELSE IF implements(x, TextMarshalerTypes)
    THEN IF MarshalFails(x) THEN ValResult(<<>>, "MarshalText failed", FALSE)
         ELSE ValResult(<<StrValue(MarshalText(x))>>, NoErr, FALSE)
    ELSE IF implements(x, JsonMarshalerTypes)
    THEN IF MarshalFails(x) THEN ValResult(<<>>, "MarshalJSON failed", FALSE)
         ELSE ValResult(<<StrValue(MarshalJSON(x))>>, NoErr, FALSE)
    ELSE CASE x.kind = "string" -> ValResult(<<StrValue(x.s)>>, NoErr, FALSE)
           [] x.kind = "slice" -> sliceLoop(x, 1, <<>>)
           [] x.kind = "map" -> mapLoop(x, sortKeys(MapKeys(x)), 1, <<>>)
           [] x.kind \in {"float64", "int", "int64", "uint"} ->
                 ValResult(<<NumberValue(x.i)>>, NoErr, FALSE)
           [] x.kind = "bool" -> ValResult(<<BoolValue(x.b)>>, NoErr, FALSE)
           [] OTHER ->
                 IF x.type = timeType
                 THEN ValResult(<<StrValue(x.s)>>, NoErr, FALSE)
                 ELSE ValResult(<<>>, NoErr, TRUE)

\* Schema placeholder of a value's type.
attrSchema(x) ==
    IF x.type = durationType \/ implements(x, TextMarshalerTypes)
       \/ implements(x, JsonMarshalerTypes)
    THEN ValResult(<<StrValue("")>>, NoErr, FALSE)
    ELSE CASE x.kind = "string" -> ValResult(<<StrValue("")>>, NoErr, FALSE)
           [] x.kind = "slice" -> ValResult(<<ListValue(<<>>)>>, NoErr, FALSE)
           [] x.kind = "map" -> ValResult(<<MapValue(<<>>)>>, NoErr, FALSE)
           [] x.kind \in {"float64", "int", "int64", "uint"} ->
                 ValResult(<<NumberValue(0)>>, NoErr, FALSE)
           [] x.kind = "bool" -> ValResult(<<BoolValue(FALSE)>>, NoErr, FALSE)
           [] OTHER -> ValResult(<<StrValue("")>>, NoErr, FALSE)

\* fieldToAttr: the attribute is returned together with the encoder's error
\* (its Value is then nil, NoValue here).
fieldToAttr(field, tag, sch) ==
    LET r == IF sch THEN attrSchema(field.v) ELSE valueToValue(field.v)
    IN [attr |-> Attribute(tag.name, IF r.val = <<>> THEN NoValue ELSE r.val[1]),
        err |-> r.err, panic |-> r.panic]

(***************************************************************************)
(* Struct Encoder and Block Encoder.                                       *)
(***************************************************************************)
\* flattenFields: the record's fields in declaration order, or an error.
flattenFields(x) ==
    IF x.enumErr THEN [fields |-> <<>>, err |-> "flattenFields failed"]
    ELSE [fields |-> x.fields, err |-> NoErr]

\* Classify with the optional case tried before the block case.
ClassifyOptionalFirst(tag, fv, sch) ==
    IF tag.label THEN "label"
    ELSE IF tag.optional /\ IsZero(fv) /\ ~sch THEN "omit"
    ELSE IF tag.block THEN "block"
    ELSE "attr"

\* Classify with the optional case taken in schema mode too.
ClassifyOmitInSchema(tag, fv, sch) ==
    IF tag.label THEN "label"
    ELSE IF tag.block THEN "block"
    ELSE IF tag.optional /\ IsZero(fv) THEN "omit"
    ELSE "attr"

\* The switch of lines 74-109: which case a field takes.
Classify(tag, fv, sch) ==
    IF tag.label THEN "label"
    ELSE IF tag.block THEN "block"
    ELSE IF tag.optional /\ IsZero(fv) /\ ~sch THEN "omit"
    ELSE "attr"

RECURSIVE structToEntries(_, _)
RECURSIVE fieldLoop(_, _, _, _, _)
RECURSIVE valueToBlock(_, _, _)
RECURSIVE sliceToBlocks(_, _)
RECURSIVE sliceLoopBlocks(_, _, _, _)
RECURSIVE sliceToBlockSchema(_, _)

\* One Entry per block, all with the field's comments (lines 96-98).
blockEntries(blocks, comments) ==
    [i \in 1..Len(blocks) |-> BlockEntry(blocks[i], comments)]

\* The loop of lines 71-116 from field i on; entries and labels hold what the
\* earlier fields produced.
fieldLoop(fields, i, sch, entries, labels) ==
    IF i > Len(fields) THEN EntResult(entries, labels, NoErr, FALSE)
    ELSE
      LET field == fields[i]
          tag == field.tag
          comments == tag.comments
          class == Classify(tag, field.v, sch)
      IN CASE class = "label" ->
                fieldLoop(fields, i + 1, sch, entries,
                          Append(labels, IF sch THEN tag.name ELSE String(field.v)))
           [] class = "block" /\ field.v.kind = "slice" /\ sch ->
                \* line 86 declares a new err: the err tested at line 93 is the
                \* function's own, still nil after flattenFields succeeded.
                LET r == sliceToBlockSchema(field.v, tag)
                    blocks == IF r.err = NoErr THEN <<r.block>> ELSE <<>>
                IN IF r.panic THEN EntResult(<<>>, <<>>, NoErr, TRUE)
                   ELSE fieldLoop(fields, i + 1, sch,
                                  entries \o blockEntries(blocks, comments), labels)
           [] class = "block" /\ field.v.kind = "slice" /\ ~sch ->
                LET r == sliceToBlocks(field.v, tag)
                IN IF r.panic THEN EntResult(<<>>, <<>>, NoErr, TRUE)
                   ELSE IF r.err # NoErr THEN EntResult(<<>>, <<>>, r.err, FALSE)
                   ELSE fieldLoop(fields, i + 1, sch,
                                  entries \o blockEntries(r.blocks, comments), labels)
           [] class = "block" /\ field.v.kind # "slice" ->
                LET r == valueToBlock(field.v, tag, sch)
                IN IF r.panic THEN EntResult(<<>>, <<>>, NoErr, TRUE)
                   ELSE IF r.err # NoErr THEN EntResult(<<>>, <<>>, r.err, FALSE)
                   ELSE fieldLoop(fields, i + 1, sch,
                                  Append(entries, BlockEntry(r.block, comments)), labels)
           [] class = "omit" -> fieldLoop(fields, i + 1, sch, entries, labels)
           [] class = "attr" ->
                LET r == fieldToAttr(field, tag, sch)
                IN IF r.panic THEN EntResult(<<>>, <<>>, NoErr, TRUE)
                   ELSE IF r.err # NoErr THEN EntResult(<<>>, <<>>, r.err, FALSE)
                   ELSE fieldLoop(fields, i + 1, sch,
                                  Append(entries, AttrEntry(r.attr, comments)), labels)

structToEntries(x, sch) ==
    LET f == flattenFields(x)
    IN IF f.err # NoErr THEN EntResult(<<>>, <<>>, f.err, FALSE)
       ELSE fieldLoop(f.fields, 1, sch, <<>>, <<>>)

\* valueToBlock returns the block together with structToEntries' error.
valueToBlock(x, tag, sch) ==
    LET r == structToEntries(x, sch)
    IN BlockResult(Block(tag.name, r.labels, r.entries), r.err, r.panic)

\* The loop of lines 231-237 from element i on.
sliceLoopBlocks(sv, tag, i, blocks) ==
    IF i > Len(sv.elems) THEN BlocksResult(blocks, NoErr, FALSE)
    ELSE LET r == valueToBlock(sv.elems[i], tag, FALSE)
         IN IF r.panic \/ r.err # NoErr THEN BlocksResult(<<>>, r.err, r.panic)
            ELSE sliceLoopBlocks(sv, tag, i + 1, Append(blocks, r.block))

\* sliceToBlocks starting at the second element.
sliceToBlocksSkipFirst(sv, tag) == sliceLoopBlocks(sv, tag, 2, <<>>)

sliceToBlocks(sv, tag) == sliceLoopBlocks(sv, tag, 1, <<>>)

\* The representative block of a slice of records: the zero value of the
\* element type, encoded in schema mode.
sliceToBlockSchema(sv, tag) == valueToBlock(sv.zero, tag, TRUE)

\* What marshalToAST returns: the AST (nil: <<>>) and the error; panic when
\* it never returns.
ASTResult(ast, err, panic) == [ast |-> ast, err |-> err, panic |-> panic]

\* labelsError without the check: labels at the top level are let through.
labelsErrorNever(labels) == NoErr

\* Lines 60-62: labels at the top level are an error.
labelsError(labels) ==
    IF Len(labels) > 0
    THEN "unexpected labels " \o Join(labels, ", ") \o " at top level"
    ELSE NoErr

\* marshalToAST from the result r of structToEntries at line 56 on.
astOf(r) ==
    IF r.panic THEN ASTResult(<<>>, NoErr, TRUE)
    ELSE IF r.err # NoErr THEN ASTResult(<<>>, r.err, FALSE)
    ELSE IF labelsError(r.labels) # NoErr
         THEN ASTResult(<<>>, labelsError(r.labels), FALSE)
    ELSE ASTResult(<<[Entries |-> r.entries]>>, NoErr, FALSE)

\* Lines 43-50: the input must be a pointer to a struct.
IsStructPtr(x) == x.kind = "ptr" /\ x.elem.kind = "struct"

NoEntries == EntResult(<<>>, <<>>, NoErr, FALSE)

marshalToAST(x, sch) ==
    IF ~IsStructPtr(x)
    THEN ASTResult(<<>>, "expected a pointer to a struct, not " \o x.type, FALSE)
    ELSE astOf(structToEntries(x.elem, sch))

(***************************************************************************)
(* Renderer.  Every operator gives the chunks it hands to the writer, one  *)
(* per fmt.Fprintf / fmt.Fprintln call, in order.  No call's result is     *)
(* looked at, so the chunks do not depend on what the writer answers, and  *)
(* every error returned is nil.                                            *)
(***************************************************************************)
\* Value.String(), which %s prints: the canonical text of a value.
RECURSIVE ValueString(_)
RECURSIVE valueStrings(_)
RECURSIVE mapEntryStrings(_)
valueStrings(list) ==
    IF list = <<>> THEN <<>>
    ELSE <<ValueString(list[1])>> \o valueStrings(Tail(list))
mapEntryStrings(entries) ==
    IF entries = <<>> THEN <<>>
    ELSE <<ValueString(entries[1].Key) \o ": " \o ValueString(entries[1].Value)>>
         \o mapEntryStrings(Tail(entries))
ValueString(value) ==
    IF value.Str # <<>> THEN Quote(value.Str[1])
    ELSE IF value.Number # <<>> THEN ToString(value.Number[1])
    ELSE IF value.Bool # <<>> THEN (IF value.Bool[1] THEN "true" ELSE "false")
    ELSE IF value.HaveList THEN "[" \o Join(valueStrings(value.List), ", ") \o "]"
    ELSE IF value.HaveMap THEN "{" \o Join(mapEntryStrings(value.Map), ", ") \o "}"
    ELSE ""

marshalComments(indent, comments) ==
    [i \in 1..Len(comments) |-> indent \o comments[i] \o "\n"]

\* blankAfter without the test: a blank line after every block.
blankAfterAlways(i, n) == TRUE

\* Line 248: a blank line follows block i of n entries unless it is the last.
blankAfter(i, n) == i # n

\* Line 274: the indent marshalValue hands to marshalMap.
mapIndent(indent) == indent \o "  "

\* Line 290: the indent of a map's closing brace.
closeIndent(indent) == SubSeq(indent, 1, Len(indent) - 2)

RECURSIVE marshalEntries(_, _)
RECURSIVE entriesLoop(_, _, _)
RECURSIVE marshalBlock(_, _)
RECURSIVE marshalValue(_, _)
RECURSIVE marshalMap(_, _)
RECURSIVE mapEntriesLoop(_, _)

marshalValue(indent, value) ==
    IF value.HaveMap THEN marshalMap(mapIndent(indent), value.Map)
    ELSE <<ValueString(value)>>

mapEntriesLoop(indent, entries) ==
    IF entries = <<>> THEN <<>>
    ELSE marshalComments(indent, entries[1].Comments)
         \o <<indent \o ValueString(entries[1].Key) \o ": ">>
         \o marshalValue(indent \o "  ", entries[1].Value)
         \o <<",\n">>
         \o mapEntriesLoop(indent, Tail(entries))

marshalMap(indent, entries) ==
    <<"{\n">> \o mapEntriesLoop(indent, entries) \o <<closeIndent(indent) \o "}">>

marshalAttribute(indent, attribute) ==
    <<indent \o attribute.Key \o " = ">>
    \o marshalValue(indent, attribute.Value)
    \o <<"\n">>

marshalBlock(indent, block) ==
    <<indent \o block.Name \o " ">>
    \o [i \in 1..Len(block.Labels) |-> Quote(block.Labels[i]) \o " "]
    \o <<"{\n">>
    \o marshalEntries(indent \o "  ", block.Body)
    \o <<indent \o "}\n">>

\* The loop of lines 242-258 from entry i on.  Every entry marshalToAST
\* builds holds a Block or an Attribute, so the panic of line 256 is not met.
entriesLoop(indent, entries, i) ==
    IF i > Len(entries) THEN <<>>
    ELSE LET entry == entries[i]
         IN marshalComments(indent, entry.Comments)
            \o (IF entry.Block # <<>>
                THEN marshalBlock(indent, entry.Block[1])
                     \o (IF blankAfter(i, Len(entries)) THEN <<"\n">> ELSE <<>>)
                ELSE marshalAttribute(indent, entry.Attribute[1]))
            \o entriesLoop(indent, entries, i + 1)

marshalEntries(indent, entries) == entriesLoop(indent, entries, 1)

(***************************************************************************)
(* The input universe.                                                     *)
(***************************************************************************)
\* All sequences over S of length at most n.
SeqUpTo(S, n) == UNION {[1..k -> S] : k \in 0..n}

Pair(k, val) == [k |-> k, v |-> val]

\* Fields that are attributes or labels.
fA == Field(StringV("x"), Tag("a", FALSE, FALSE, FALSE, <<>>))
fOz == Field(StringV(""), Tag("oz", FALSE, FALSE, TRUE, <<>>))
fOn == Field(IntV(7), Tag("on", FALSE, FALSE, TRUE, <<"// on">>))
fN == Field(IntV(0), Tag("n", FALSE, FALSE, FALSE, <<>>))
fB == Field(BoolV(TRUE), Tag("b", FALSE, FALSE, FALSE, <<>>))
fD == Field(DurationV(5400), Tag("d", FALSE, FALSE, FALSE, <<>>))
fLe == Field(SliceV("[]string", FALSE, <<>>), Tag("le", FALSE, FALSE, FALSE, <<>>))
fLn == Field(SliceV("[]string", TRUE, <<>>), Tag("ln", FALSE, FALSE, TRUE, <<>>))
fLs == Field(SliceV("[]string", FALSE, <<StringV("a"), StringV("b")>>),
             Tag("tags", FALSE, FALSE, FALSE, <<"// tags">>))
fMe == Field(MapV("map[string]int", FALSE, <<>>),
             Tag("me", FALSE, FALSE, FALSE, <<>>))
fM == Field(MapV("map[string]int", FALSE,
                 <<Pair(StringV("b"), IntV(1)), Pair(StringV("a"), IntV(2)),
                   Pair(StringV("ab"), IntV(3))>>),
            Tag("m", FALSE, FALSE, FALSE, <<>>))
fMn == Field(MapV("map[string]map[string]int", FALSE,
                  <<Pair(StringV("n"),
                         MapV("map[string]int", FALSE, <<Pair(StringV("b"), IntV(1))>>))>>),
             Tag("mn", FALSE, FALSE, FALSE, <<>>))
fMi == Field(MapV("map[int]string", FALSE,
                  <<Pair(IntV(1), StringV("x")), Pair(IntV(2), StringV("y"))>>),
             Tag("mi", FALSE, FALSE, FALSE, <<>>))
fT == Field(TextV("t", FALSE), Tag("t", FALSE, FALSE, FALSE, <<>>))
fTe == Field(TextV("t", TRUE), Tag("te", FALSE, FALSE, FALSE, <<>>))
fJ == Field(JsonV("j", FALSE), Tag("j", FALSE, FALSE, TRUE, <<>>))
fC == Field(ChanV, Tag("c", FALSE, FALSE, FALSE, <<>>))
fName == Field(StringV("x"), Tag("name", TRUE, FALSE, FALSE, <<>>))
fLo == Field(StringV(""), Tag("lo", TRUE, FALSE, TRUE, <<>>))

FlatPool ==
    {fA, fOz, fOn, fN, fB, fD, fLe, fLn, fLs, fMe, fM, fMn, fMi, fT, fTe, fJ, fC,
     fName, fLo}

\* Records held by block fields.
Inner(name, a) ==
    StructV("hcl.Inner", FALSE,
            <<Field(StringV(name), Tag("name", TRUE, FALSE, FALSE, <<>>)),
              Field(StringV(a), Tag("a", FALSE, FALSE, TRUE, <<>>))>>)
Outer ==
    StructV("hcl.Outer", FALSE,
            <<fLs, Field(Inner("x", "x"), Tag("inner", FALSE, TRUE, FALSE, <<>>)), fMn>>)
Bad == StructV("hcl.Bad", TRUE, <<>>)
Failing == StructV("hcl.Failing", FALSE, <<fA, fTe>>)

bA == Field(Inner("x", "x"), Tag("blk", FALSE, TRUE, FALSE, <<"// blk">>))
bZ == Field(Inner("", ""), Tag("bz", FALSE, TRUE, TRUE, <<>>))
bLb == Field(Inner("x", "x"), Tag("lb", TRUE, TRUE, TRUE, <<>>))
bOuter == Field(Outer, Tag("outer", FALSE, TRUE, FALSE, <<>>))
bBad == Field(Bad, Tag("bad", FALSE, TRUE, FALSE, <<>>))
bFailing == Field(Failing, Tag("bf", FALSE, TRUE, FALSE, <<>>))

BlockPool == {bA, bZ, bLb, bOuter, bBad, bFailing, fA, fOz}

\* Elements of a slice of records: one type, hcl.Elem.
Elem(name, t, fail) ==
    StructV("hcl.Elem", FALSE,
            <<Field(StringV(name), Tag("name", TRUE, FALSE, FALSE, <<>>)),
              Field(TextV(t, fail), Tag("t", FALSE, FALSE, FALSE, <<>>))>>)
ElemPool == {Elem("x", "t", FALSE), Elem("y", "u", FALSE), Elem("z", "t", TRUE)}

SliceFields ==
    {Field(StructSliceV("[]hcl.Elem", elems = <<>>, elems, Elem("", "", FALSE)),
           Tag("rule", FALSE, TRUE, opt, <<"// rules">>)) :
        elems \in SeqUpTo(ElemPool, MaxElems), opt \in BOOLEAN}
    \cup {Field(StructSliceV("[]hcl.Bad", elems = <<>>, elems, Bad),
                Tag("bads", FALSE, TRUE, FALSE, <<>>)) :
            elems \in SeqUpTo({Bad}, 1)}

Around == {<<>>, <<fA>>, <<bA>>}

FlatRecs == {StructV("hcl.Flat", FALSE, fs) : fs \in SeqUpTo(FlatPool, MaxFields)}
BlockRecs == {StructV("hcl.Blocks", FALSE, fs) : fs \in SeqUpTo(BlockPool, MaxFields)}
SliceRecs ==
    {StructV("hcl.Slices", FALSE, pre \o <<sf>> \o post) :
        pre \in Around, sf \in SliceFields, post \in Around}

\* What Marshal is handed: a pointer to a record, or something else.
Inputs ==
    {PtrV(r) : r \in FlatRecs \cup BlockRecs \cup SliceRecs}
    \cup {PtrV(Bad), PtrV(StringV("x")), StructV("hcl.Flat", FALSE, <<fA>>)}

\* The records rendered through a writer that may fail.
WriterPool == {fA, fMn, bA}
WriterInputs ==
    {PtrV(StructV("hcl.Doc", FALSE, fs)) : fs \in SeqUpTo(WriterPool, MaxFields)}

(***************************************************************************)
(* The state machine.                                                      *)
(***************************************************************************)
NoAST == ASTResult(<<>>, NoErr, FALSE)

InitOf(S) ==
    /\ v \in S
    /\ schema = FALSE
    /\ pc = "start"
    /\ se = NoEntries
    /\ res = NoAST
    /\ pending = <<>>
    /\ calls = 0
    /\ w = <<>>
    /\ failedAt = 0
    /\ ret = "none"

Init == InitOf(Inputs)

InitWriter == InitOf(WriterInputs)

\* marshalToAST(v, sch): se is what structToEntries gave at line 56 (when it
\* was reached), res what marshalToAST returns.
Encode(sch) ==
    /\ schema' = sch
    /\ se' = IF IsStructPtr(v) THEN structToEntries(v.elem, sch) ELSE NoEntries
    /\ res' = marshalToAST(v, sch)
    /\ pc' = IF res'.panic THEN "panicked" ELSE "ast"
    /\ UNCHANGED <<v, pending, calls, w, failedAt, ret>>

\* MarshalToAST: data mode.
MarshalToAST ==
    /\ pc = "start"
    /\ Encode(FALSE)

\* marshalToAST in schema mode.
MarshalSchema ==
    /\ pc = "start"
    /\ Encode(TRUE)

\* MarshalAST: the AST rendered into a bytes.Buffer, which takes every write.
MarshalAST ==
    /\ pc = "ast"
    /\ res.ast # <<>>
    /\ w' = marshalEntries("", res.ast[1].Entries)
    /\ calls' = Len(w')
    /\ ret' = NoErr
    /\ pc' = "rendered"
    /\ UNCHANGED <<v, schema, se, res, pending, failedAt>>

\* MarshalASTToWriter is called: pending holds the writes it goes through.
MarshalASTToWriter ==
    /\ pc = "ast"
    /\ res.ast # <<>>
    /\ pending' = marshalEntries("", res.ast[1].Entries)
    /\ pc' = "writing"
    /\ UNCHANGED <<v, schema, se, res, calls, w, failedAt, ret>>

\* The next write, taken by the writer.
WriteAccepted ==
    /\ pc = "writing"
    /\ pending # <<>>
    /\ failedAt = 0
    /\ w' = Append(w, Head(pending))
    /\ calls' = calls + 1
    /\ pending' = Tail(pending)
    /\ UNCHANGED <<v, schema, pc, se, res, failedAt, ret>>

\* The next write, rejected by the writer (which rejects every later one
\* too).  The renderer drops the error and goes on.
WriteRejected ==
    /\ pc = "writing"
    /\ pending # <<>>
    /\ calls' = calls + 1
    /\ failedAt' = IF failedAt = 0 THEN calls + 1 ELSE failedAt
    /\ pending' = Tail(pending)
    /\ UNCHANGED <<v, schema, pc, se, res, w, ret>>

\* MarshalASTToWriter returns what marshalEntries returns: nil.
WriterReturn ==
    /\ pc = "writing"
    /\ pending = <<>>
    /\ ret' = NoErr
    /\ pc' = "returned"
    /\ UNCHANGED <<v, schema, se, res, pending, calls, w, failedAt>>

Next == MarshalToAST \/ MarshalSchema \/ MarshalAST

NextWriter ==
    MarshalToAST \/ MarshalASTToWriter \/ WriteAccepted \/ WriteRejected
    \/ WriterReturn

Spec == Init /\ [][Next]_vars

SpecWriter == InitWriter /\ [][NextWriter]_vars

(***************************************************************************)
(* Reading states and rendered text.                                       *)
(***************************************************************************)
\* marshalToAST has returned (it did not panic).
Returned == pc \in {"ast", "rendered", "writing", "returned"}

\* The fields of the record Marshal was handed.
Fields == IF IsStructPtr(v) THEN v.elem.fields ELSE <<>>

\* The entries of the AST marshalToAST returned.
ASTEntries == IF res.ast = <<>> THEN <<>> ELSE res.ast[1].Entries

EntryName(e) == IF e.Block # <<>> THEN e.Block[1].Name ELSE e.Attribute[1].Key

EndsNL(c) == Len(c) > 0 /\ SubSeq(c, Len(c), Len(c)) = "\n"

\* The lines of the text a sequence of chunks makes up; a newline only ever
\* ends a chunk.
RECURSIVE LinesFrom(_, _, _)
LinesFrom(chunks, i, cur) ==
    IF i > Len(chunks) THEN (IF cur = "" THEN <<>> ELSE <<cur>>)
    ELSE IF EndsNL(chunks[i])
         THEN <<cur \o SubSeq(chunks[i], 1, Len(chunks[i]) - 1)>>
              \o LinesFrom(chunks, i + 1, "")
         ELSE LinesFrom(chunks, i + 1, cur \o chunks[i])

Lines == LinesFrom(w, 1, "")

\* The number of spaces a line starts with.
RECURSIVE Indent(_)
Indent(line) ==
    IF Len(line) > 0 /\ SubSeq(line, 1, 1) = " "
    THEN 1 + Indent(SubSeq(line, 2, Len(line)))
    ELSE 0

Stripped(line) == SubSeq(line, Indent(line) + 1, Len(line))

Opens(line) == Len(line) > 0 /\ SubSeq(line, Len(line), Len(line)) = "{"
Closes(line) == Len(Stripped(line)) > 0 /\ SubSeq(Stripped(line), 1, 1) = "}"

(***************************************************************************)
(* Claims.                                                                 *)
(***************************************************************************)
\* Encoding field f of a record fails, by the case f falls in.
FieldFails(f, sch) ==
    IF f.tag.label THEN FALSE
    ELSE IF f.tag.block
    THEN IF f.v.kind = "slice"
         THEN IF sch THEN structToEntries(f.v.zero, TRUE).err # NoErr
              ELSE \E i \in 1..Len(f.v.elems) :
                      structToEntries(f.v.elems[i], FALSE).err # NoErr
         ELSE structToEntries(f.v, sch).err # NoErr
    ELSE IF f.tag.optional /\ IsZero(f.v) /\ ~sch THEN FALSE
    ELSE IF sch THEN attrSchema(f.v).err # NoErr
    ELSE valueToValue(f.v).err # NoErr

\* C1: when marshalToAST returns and the field enumeration or the encoding
\* of some field of the record failed, in data mode or in schema mode, it
\* returns an error and no AST.
C1_FailureAbortsEncode ==
    (/\ Returned
     /\ IsStructPtr(v)
     /\ \/ flattenFields(v.elem).err # NoErr
        \/ \E i \in 1..Len(Fields) : FieldFails(Fields[i], schema))
    => (res.ast = <<>> /\ res.err # NoErr)

\* C2: once the writer has rejected a write, MarshalASTToWriter makes no
\* further write, and it returns a non-nil error.
C2_WriteFailureAborts ==
    /\ failedAt # 0 => calls = failedAt
    /\ (pc = "returned" /\ failedAt # 0) => ret # NoErr

\* The case of a field, as the claim orders the rules.
RuleOf(f, sch) ==
    IF f.tag.label THEN 1
    ELSE IF f.tag.block THEN 2
    ELSE IF f.tag.optional /\ IsZero(f.v) /\ ~sch THEN 3
    ELSE 4

IsBlockEntry(e, f) ==
    /\ e.Block # <<>>
    /\ e.Attribute = <<>>
    /\ e.Block[1].Name = f.tag.name
    /\ e.Comments = f.tag.comments

IsAttrEntry(e, f) ==
    /\ e.Attribute # <<>>
    /\ e.Block = <<>>
    /\ e.Attribute[1].Key = f.tag.name
    /\ e.Comments = f.tag.comments

\* es is what field f may produce under its rule: nothing for a label or an
\* omitted optional, Block entries only for a block field (one for a single
\* record, one per element for a sequence in data mode, at most one in schema
\* mode), exactly one Attribute entry otherwise.
ProducedBy(f, es, sch) ==
    CASE RuleOf(f, sch) = 1 -> es = <<>>
      [] RuleOf(f, sch) = 2 ->
            /\ \A j \in 1..Len(es) : IsBlockEntry(es[j], f)
            /\ IF f.v.kind # "slice" THEN Len(es) = 1
               ELSE IF sch THEN Len(es) <= 1
               ELSE Len(es) = Len(f.v.elems)
      [] RuleOf(f, sch) = 3 -> es = <<>>
      [] RuleOf(f, sch) = 4 -> Len(es) = 1 /\ IsAttrEntry(es[1], f)

\* entries splits into consecutive runs, one per field, in field order.
RECURSIVE InFieldOrder(_, _, _)
InFieldOrder(fields, entries, sch) ==
    IF fields = <<>> THEN entries = <<>>
    ELSE \E k \in 0..Len(entries) :
            /\ ProducedBy(fields[1], SubSeq(entries, 1, k), sch)
            /\ InFieldOrder(Tail(fields), SubSeq(entries, k + 1, Len(entries)), sch)

\* One string per label-tagged field, in field order.
RECURSIVE LabelsOf(_, _)
LabelsOf(fields, sch) ==
    IF fields = <<>> THEN <<>>
    ELSE (IF fields[1].tag.label
          THEN <<IF sch THEN fields[1].tag.name ELSE String(fields[1].v)>>
          ELSE <<>>)
         \o LabelsOf(Tail(fields), sch)

\* structToEntries has given entries and labels for the record.
Encoded == Returned /\ IsStructPtr(v) /\ se.err = NoErr

\* C3: the entries and labels structToEntries gives follow the four rules in
\* their order (label, then block, then omitted optional, then attribute),
\* field by field and in field order.
C3_Classification ==
    Encoded =>
        /\ InFieldOrder(Fields, se.entries, schema)
        /\ se.labels = LabelsOf(Fields, schema)

\* A record with a field tagged label, block and optional, and a block field
\* that is optional and zero, encoded in data mode.
C3_Witness ==
    /\ Encoded
    /\ ~schema
    /\ \E i \in 1..Len(Fields) :
          Fields[i].tag.label /\ Fields[i].tag.block /\ Fields[i].tag.optional
    /\ \E i \in 1..Len(Fields) :
          /\ ~Fields[i].tag.label
          /\ Fields[i].tag.block
          /\ Fields[i].tag.optional
          /\ IsZero(Fields[i].v)
    /\ Len(se.entries) = 1
    /\ Len(se.labels) = 1

\* The entries of the returned AST that bear a name.
Named(name) == {j \in 1..Len(ASTEntries) : EntryName(ASTEntries[j]) = name}

\* The fields of the record that bear a name.
FieldsNamed(name) == {i \in 1..Len(Fields) : Fields[i].tag.name = name}

OptionalZero(f) == f.tag.optional /\ IsZero(f.v)

\* C4 as stated: in a returned AST, a field tagged optional that holds the
\* zero value has no entry in data mode and has an entry in schema mode.
C4_OptionalZeroAnyField ==
    (Returned /\ res.ast # <<>>) =>
        \A i \in 1..Len(Fields) :
            OptionalZero(Fields[i]) =>
                IF schema THEN Named(Fields[i].tag.name) # {}
                ELSE Named(Fields[i].tag.name) = {}

\* C4, amended: in a returned AST, a field tagged optional and neither label
\* nor block that holds the zero value has no entry in data mode, and in
\* schema mode has one Attribute entry per occurrence.
C4_OptionalZeroAttribute ==
    (Returned /\ res.ast # <<>>) =>
        \A i \in 1..Len(Fields) :
            (OptionalZero(Fields[i]) /\ ~Fields[i].tag.label /\ ~Fields[i].tag.block) =>
                IF schema
                THEN /\ Cardinality(Named(Fields[i].tag.name))
                          = Cardinality(FieldsNamed(Fields[i].tag.name))
                     /\ \A j \in Named(Fields[i].tag.name) :
                            IsAttrEntry(ASTEntries[j], Fields[i])
                ELSE Named(Fields[i].tag.name) = {}

\* A schema-mode AST holding the entry of an optional zero attribute field
\* next to another entry.
C4_Witness ==
    /\ Returned
    /\ schema
    /\ Len(ASTEntries) = 2
    /\ \E i \in 1..Len(Fields) :
          /\ OptionalZero(Fields[i])
          /\ ~Fields[i].tag.label
          /\ ~Fields[i].tag.block
          /\ Named(Fields[i].tag.name) # {}

\* The block-tagged fields of the record that hold a sequence of records.
SliceBlockFields ==
    {i \in 1..Len(Fields) :
        /\ ~Fields[i].tag.label
        /\ Fields[i].tag.block
        /\ Fields[i].v.kind = "slice"}

\* The label-tagged fields' values of a record, in field order.
OwnLabels(x) == LabelsOf(x.fields, FALSE)

\* C5: in data mode a block-tagged sequence of N records gives exactly N
\* consecutive Block entries, in element order, named by the field's tag and
\* carrying the field's comments; block k has the Labels and Body that
\* encoding element k alone gives.
C5_OneBlockPerElement ==
    (Encoded /\ ~schema) =>
        \A i \in SliceBlockFields :
            LET f == Fields[i]
                n == Len(f.v.elems)
                at == {j \in 1..Len(se.entries) : EntryName(se.entries[j]) = f.tag.name}
            IN /\ Cardinality(at) = n
               /\ \E lo \in 1..(Len(se.entries) + 1) :
                     /\ at = lo..(lo + n - 1)
                     /\ \A k \in 1..n :
                           LET e == se.entries[lo + k - 1]
                               alone == structToEntries(f.v.elems[k], FALSE)
                           IN /\ IsBlockEntry(e, f)
                              /\ e.Block[1].Labels = alone.labels
                              /\ e.Block[1].Labels = OwnLabels(f.v.elems[k])
                              /\ e.Block[1].Body = alone.entries

\* A sequence of two records with different labels, between two other
\* fields, encoded in data mode.
C5_Witness ==
    /\ Encoded
    /\ ~schema
    /\ \E i \in SliceBlockFields :
          /\ Len(Fields[i].v.elems) = 2
          /\ OwnLabels(Fields[i].v.elems[1]) # OwnLabels(Fields[i].v.elems[2])
          /\ 1 < i
          /\ i < Len(Fields)
    /\ Len(se.entries) = 4

HasLabelField == \E i \in 1..Len(Fields) : Fields[i].tag.label

\* The block-tagged fields of the record that hold a single record.
SingleBlockFields ==
    {i \in 1..Len(Fields) :
        /\ ~Fields[i].tag.label
        /\ Fields[i].tag.block
        /\ Fields[i].v.kind = "struct"}

\* C9: when marshalToAST returns for a record with a label-tagged field it
\* returns an error and no AST; an AST it returns has no labels at the root;
\* and the label-tagged fields of a record held by a block field become the
\* Labels of its Block.
C9_LabelsOnlyInBlocks ==
    /\ (Returned /\ IsStructPtr(v) /\ HasLabelField)
           => (res.ast = <<>> /\ res.err # NoErr)
    /\ (Returned /\ res.ast # <<>>) => se.labels = <<>>
    /\ (Returned /\ res.ast # <<>>) =>
           \A i \in SingleBlockFields :
               \A j \in Named(Fields[i].tag.name) :
                   ASTEntries[j].Block[1].Labels = LabelsOf(Fields[i].v.fields, schema)

\* structToEntries succeeded on a record with a label field, and marshalToAST
\* returned the top-level label error.
C9_Witness ==
    /\ Returned
    /\ HasLabelField
    /\ se.err = NoErr
    /\ se.labels = <<"x">>
    /\ res.ast = <<>>
    /\ res.err = "unexpected labels x at top level"

\* A returned AST with a block whose record has a label field.
C9_WitnessNested ==
    /\ Returned
    /\ res.ast # <<>>
    /\ \E i \in SingleBlockFields :
          \E j \in Named(Fields[i].tag.name) : ASTEntries[j].Block[1].Labels = <<"x">>

\* An indented block or map is laid out under the line that opens it: from
\* line i on, with owners the indents of the open lines still unclosed, each
\* line is two spaces deeper than its owner (not indented outside any), and a
\* closing brace is at its owner's indent.
RECURSIVE IndentedFrom(_, _, _)
IndentedFrom(ls, i, owners) ==
    IF i > Len(ls) THEN TRUE
    ELSE IF ls[i] = "" THEN IndentedFrom(ls, i + 1, owners)
    ELSE IF Closes(ls[i])
    THEN /\ owners # <<>>
         /\ Indent(ls[i]) = owners[Len(owners)]
         /\ IndentedFrom(ls, i + 1, SubSeq(owners, 1, Len(owners) - 1))
    ELSE /\ Indent(ls[i]) = (IF owners = <<>> THEN 0 ELSE owners[Len(owners)] + 2)
         /\ IndentedFrom(ls, i + 1,
                         IF Opens(ls[i]) THEN Append(owners, Indent(ls[i])) ELSE owners)

\* C6: in a rendered document every line of a block body at depth d is
\* indented by 2*d spaces, the entries of a map are two spaces deeper than
\* the line holding the key that owns the map, and the map's closing brace
\* is at the indent of that line.
C6_Indentation == pc = "rendered" => IndentedFrom(Lines, 1, <<>>)

\* The documents without a map inside a map are indented as C6 says.
HasNestedMap(entries) ==
    \E j \in 1..Len(entries) :
        /\ entries[j].Attribute # <<>>
        /\ \E k \in 1..Len(entries[j].Attribute[1].Value.Map) :
              entries[j].Attribute[1].Value.Map[k].Value.HaveMap
RECURSIVE AnyNestedMap(_)
AnyNestedMap(entries) ==
    \/ HasNestedMap(entries)
    \/ \E j \in 1..Len(entries) :
          entries[j].Block # <<>> /\ AnyNestedMap(entries[j].Block[1].Body)
IndentationWithoutNestedMaps ==
    (pc = "rendered" /\ ~AnyNestedMap(ASTEntries)) => IndentedFrom(Lines, 1, <<>>)

LineSet == {Lines[i] : i \in 1..Len(Lines)}

\* C7: a non-optional field holding an empty sequence is encoded as a List
\* with the presence flag set and renders as `key = []`; one holding an empty
\* mapping is encoded as a Map with the presence flag set and renders as
\* `key = {}`.
C7_EmptyCollections ==
    (pc = "rendered" /\ ~schema) =>
        \A i \in 1..Len(Fields) :
            LET f == Fields[i]
            IN (/\ ~f.tag.label
                /\ ~f.tag.block
                /\ ~f.tag.optional
                /\ f.v.kind \in {"slice", "map"}) =>
                   /\ (f.v.kind = "slice" /\ f.v.elems = <<>>) =>
                          /\ \E j \in Named(f.tag.name) :
                                LET val == ASTEntries[j].Attribute[1].Value
                                IN val.HaveList /\ val.List = <<>>
                          /\ (f.tag.name \o " = []") \in LineSet
                   /\ (f.v.kind = "map" /\ f.v.pairs = <<>>) =>
                          /\ \E j \in Named(f.tag.name) :
                                LET val == ASTEntries[j].Attribute[1].Value
                                IN val.HaveMap /\ val.Map = <<>>
                          /\ (f.tag.name \o " = {}") \in LineSet

\* The attribute fields of the record that hold a mapping.
MapFields ==
    {i \in 1..Len(Fields) : RuleOf(Fields[i], FALSE) = 4 /\ Fields[i].v.kind = "map"}

StringKeyed(x) == \A i \in 1..Len(x.pairs) : x.pairs[i].k.kind = "string"

\* The same mapping, its keys iterated in every order.
Reorderings(x) ==
    {MapV(x.type, x.nil, [i \in 1..Len(x.pairs) |-> x.pairs[p[i]]]) :
        p \in Permutations(1..Len(x.pairs))}

KeyTexts(node) == [i \in 1..Len(node.Map) |-> node.Map[i].Key.Str[1]]

RECURSIVE Repeat(_, _)
Repeat(seq, n) == IF n = 0 THEN <<>> ELSE seq \o Repeat(seq, n - 1)

\* The key chunks the renderer writes for a top-level map with these keys.
KeyChunk(key) == "  " \o Quote(key) \o ": "
IsKeyChunkOf(node, c) == \E i \in 1..Len(node.Map) : c = KeyChunk(KeyTexts(node)[i])
KeyChunksWritten(node) ==
    LET P(c) == IsKeyChunkOf(node, c) IN SelectSeq(w, P)

\* Map node `node`, built for field f, has its entries in an order that the
\* iteration order does not decide, and the renderer wrote them in it.
SameInEveryOrder(f, node) ==
    /\ \A y \in Reorderings(f.v) : valueToValue(y).val = <<node>>
    /\ pc = "rendered" =>
          KeyChunksWritten(node)
              = Repeat([i \in 1..Len(node.Map) |-> KeyChunk(KeyTexts(node)[i])],
                       Cardinality(FieldsNamed(f.tag.name)))

\* C8 as stated: for every mapping, the Map node lists its entries in
\* ascending order of the keys' string form whatever the iteration order,
\* two encodings of the mapping give the same order, and the renderer emits
\* the entries in it.
C8_EveryMapSorted ==
    (Returned /\ ~schema /\ res.ast # <<>>) =>
        \A i \in MapFields : \A j \in Named(Fields[i].tag.name) :
            LET node == ASTEntries[j].Attribute[1].Value
                keys == KeyTexts(node)
            IN /\ node.HaveMap
               /\ \A k \in 1..(Len(keys) - 1) : ~StrLess(keys[k + 1], keys[k])
               /\ SameInEveryOrder(Fields[i], node)

\* C8, amended: the same for every mapping whose keys are strings, the order
\* being strictly ascending.
C8_StringKeyedMapSorted ==
    (Returned /\ ~schema /\ res.ast # <<>>) =>
        \A i \in MapFields : \A j \in Named(Fields[i].tag.name) :
            StringKeyed(Fields[i].v) =>
                LET node == ASTEntries[j].Attribute[1].Value
                    keys == KeyTexts(node)
                IN /\ node.HaveMap
                   /\ Len(keys) = Len(Fields[i].v.pairs)
                   /\ \A k \in 1..(Len(keys) - 1) : StrLess(keys[k], keys[k + 1])
                   /\ SameInEveryOrder(Fields[i], node)

\* A rendered record with a three-key string map iterated out of order.
C8_Witness ==
    /\ pc = "rendered"
    /\ ~schema
    /\ \E i \in MapFields : \E j \in Named(Fields[i].tag.name) :
          /\ StringKeyed(Fields[i].v)
          /\ Len(Fields[i].v.pairs) = 3
          /\ MapKeys(Fields[i].v) # sortKeys(MapKeys(Fields[i].v))
          /\ KeyTexts(ASTEntries[j].Attribute[1].Value) = <<"a", "ab", "b">>

\* The Block entries, at any depth, that are not the last of their siblings.
RECURSIVE NonLastBlocks(_)
RECURSIVE NonLastBlocksFrom(_, _)
NonLastBlocksFrom(entries, i) ==
    IF i > Len(entries) THEN 0
    ELSE (IF entries[i].Block # <<>>
          THEN (IF i < Len(entries) THEN 1 ELSE 0) + NonLastBlocks(entries[i].Block[1].Body)
          ELSE 0)
         + NonLastBlocksFrom(entries, i + 1)
NonLastBlocks(entries) == NonLastBlocksFrom(entries, 1)

BlankLines == {i \in 1..Len(Lines) : Lines[i] = ""}

\* C10: the rendered text has one blank line for each Block entry that is
\* not the last of its siblings, each right after a block's closing brace
\* and followed by a line that is not blank, and the text does not end with
\* a blank line.
C10_BlankLines ==
    pc = "rendered" =>
        /\ Cardinality(BlankLines) = NonLastBlocks(ASTEntries)
        /\ \A i \in BlankLines :
              /\ i > 1
              /\ Stripped(Lines[i - 1]) = "}"
              /\ i < Len(Lines)
              /\ Lines[i + 1] # ""
        /\ Lines # <<>> => Lines[Len(Lines)] # ""

\* A rendered document whose root has a block followed by another entry and
\* ends with a block.
C10_Witness ==
    /\ pc = "rendered"
    /\ Len(ASTEntries) >= 2
    /\ ASTEntries[1].Block # <<>>
    /\ ASTEntries[Len(ASTEntries)].Block # <<>>
    /\ BlankLines # {}

====
